---------------------------- MODULE Spec2Model ----------------------------
(***************************************************************************)
(* A model of the appointment scheduler assistant                          *)
(* (AI_Powered_Appointment_Scheduler_Assistant_(Google_Vision).py).        *)
(*                                                                         *)
(* A text is a sequence of one-character strings.  Python's None is the    *)
(* empty set and a present value v is {v}, so that None and the empty      *)
(* string "" (the empty sequence) stay apart.  Confidences are integer     *)
(* hundredths.  An ISO date is the tuple <<year, month, day>> and an HH:MM *)
(* time the tuple <<hour, minute>>.                                        *)
(***************************************************************************)
EXTENDS Integers, Sequences, FiniteSets, TLC

VARIABLES
    pc,          \* "idle" before the operation runs, then where it has got to
    request,     \* the request received: its entry point and its body
    endpoint,    \* the operation: an entry point, or a function applied alone
    text,        \* the text the operation works on
    calls,       \* the functions invoked, in order
    parses,      \* the calls made to dateparser.parse: phrase and outcome
    entities,    \* the entities dict
    ent_conf,    \* entities_confidence, in hundredths
    normalized,  \* the normalized dict
    norm_conf,   \* normalization_confidence, in hundredths
    guard,       \* what needs_clarification returned
    response     \* the HTTP response: status code and JSON content

vars == <<pc, request, endpoint, text, calls, parses, entities, ent_conf,
          normalized, norm_conf, guard, response>>

---------------------------------------------------------------------------
(* Python values *)

None == {}

Some(v) == {v}

The(o) == CHOOSE v \in o : TRUE

\* Python truthiness of an Optional[str] holding a text: None and "" are falsy.
Truthy(o) == o # None /\ The(o) # <<>>

\* the same for one holding a department name, a string
TruthyName(o) == o # None /\ The(o) # ""

---------------------------------------------------------------------------
(* Characters *)

UpperLetters ==
    <<"A","B","C","D","E","F","G","H","I","J","K","L","M",
      "N","O","P","Q","R","S","T","U","V","W","X","Y","Z">>

LowerLetters ==
    <<"a","b","c","d","e","f","g","h","i","j","k","l","m",
      "n","o","p","q","r","s","t","u","v","w","x","y","z">>

Digits == {"0","1","2","3","4","5","6","7","8","9"}

ToLower == [c \in {UpperLetters[i] : i \in 1..26} |->
               LowerLetters[CHOOSE i \in 1..26 : UpperLetters[i] = c]]

\* str.lower() on one character
LowerChar(c) == IF c \in DOMAIN ToLower THEN ToLower[c] ELSE c

\* str.lower()
Lower(s) == [i \in 1..Len(s) |-> LowerChar(s[i])]

\* what str.split() and the regex class \s take for whitespace
IsSpace(c) == c \in {" ", "\t", "\n", "\r"}

\* the regex class \d
IsDigit(c) == c \in Digits

\* the regex class \w
IsWord(c) ==
    \/ c \in DOMAIN ToLower
    \/ c \in {LowerLetters[i] : i \in 1..26}
    \/ c \in Digits
    \/ c = "_"

\* Python's  k in s  for strings
IsSubstr(k, s) ==
    \E i \in 0..(Len(s) - Len(k)) : SubSeq(s, i + 1, i + Len(k)) = k

---------------------------------------------------------------------------
(* clean_ocr_text *)

RECURSIVE Split(_, _)
\* text.split(): the maximal runs of non-whitespace, cur being the run so far
Split(s, cur) ==
    IF s = <<>> THEN (IF cur = <<>> THEN <<>> ELSE <<cur>>)
    ELSE IF IsSpace(Head(s))
         THEN (IF cur = <<>> THEN <<>> ELSE <<cur>>) \o Split(Tail(s), <<>>)
         ELSE Split(Tail(s), Append(cur, Head(s)))

RECURSIVE Join(_)
\* " ".join(words)
Join(ws) ==
    IF ws = <<>> THEN <<>>
    ELSE IF Len(ws) = 1 THEN ws[1]
    ELSE ws[1] \o <<" ">> \o Join(Tail(ws))

\* " ".join(text.split())
NormalizeWhitespace(s) == Join(Split(s, <<>>))

RECURSIVE ReplaceAt(_)
\* text.replace('@', 'at')
ReplaceAt(s) ==
    IF s = <<>> THEN <<>>
    ELSE (IF Head(s) = "@" THEN <<"a", "t">> ELSE <<Head(s)>>)
         \o ReplaceAt(Tail(s))

\* the regex assertion \b before position i (between s[i-1] and s[i])
WordBoundary(s, i) ==
    ((i - 1) \in 1..Len(s) /\ IsWord(s[i - 1]))
        # (i \in 1..Len(s) /\ IsWord(s[i]))

\* \bnxt\b matches at position i, under re.IGNORECASE
NxtAt(s, i) ==
    /\ i + 2 <= Len(s)
    /\ LowerChar(s[i]) = "n"
    /\ LowerChar(s[i + 1]) = "x"
    /\ LowerChar(s[i + 2]) = "t"
    /\ WordBoundary(s, i)
    /\ WordBoundary(s, i + 3)

RECURSIVE SubNxt(_, _)
\* re.sub(r'\bnxt\b', 'next', text, flags=re.IGNORECASE), scanning from i
SubNxt(s, i) ==
    IF i > Len(s) THEN <<>>
    ELSE IF NxtAt(s, i) THEN <<"n", "e", "x", "t">> \o SubNxt(s, i + 3)
    ELSE <<s[i]>> \o SubNxt(s, i + 1)

RECURSIVE ReplaceAt_Spaced(_)
\* text.replace('@', ' at ')
ReplaceAt_Spaced(s) ==
    IF s = <<>> THEN <<>>
    ELSE (IF Head(s) = "@" THEN <<" ", "a", "t", " ">> ELSE <<Head(s)>>)
         \o ReplaceAt_Spaced(Tail(s))

\* clean_ocr_text putting spaces around the word it writes for '@'
clean_ocr_text_SpacedAt(s) ==
    IF s = <<>> THEN <<>>
    ELSE SubNxt(ReplaceAt_Spaced(NormalizeWhitespace(s)), 1)

clean_ocr_text(s) ==
    IF s = <<>> THEN <<>>
    ELSE SubNxt(ReplaceAt(NormalizeWhitespace(s)), 1)

---------------------------------------------------------------------------
(* extract_entities_from_text *)

\* dept_patterns with Cardiology declared first
dept_patterns_CardiologyFirst ==
    <<[name |-> "Cardiology",
       keywords |-> <<<<"c","a","r","d","i","o">>,
                      <<"h","e","a","r","t">>,
                      <<"c","a","r","d","i","a","c">>>>],
      [name |-> "Dentistry",
       keywords |-> <<<<"d","e","n","t","i","s","t">>,
                      <<"d","e","n","t","a","l">>,
                      <<"t","o","o","t","h">>,
                      <<"t","e","e","t","h">>>>],
      [name |-> "Dermatology",
       keywords |-> <<<<"d","e","r","m","a">>,
                      <<"s","k","i","n">>,
                      <<"d","e","r","m","a","t","o","l","o","g">>>>],
      [name |-> "Doctor",
       keywords |-> <<<<"d","o","c","t","o","r">>,
                      <<"p","h","y","s","i","c","i","a","n">>,
                      <<"g","p">>,
                      <<"g","e","n","e","r","a","l">>>>]>>

\* dept_patterns, in the dict's insertion order
dept_patterns ==
    <<[name |-> "Dentistry",
        keywords |-> <<<<"d","e","n","t","i","s","t">>,
                       <<"d","e","n","t","a","l">>,
                       <<"t","o","o","t","h">>,
                       <<"t","e","e","t","h">>>>],
       [name |-> "Dermatology",
        keywords |-> <<<<"d","e","r","m","a">>,
                       <<"s","k","i","n">>,
                       <<"d","e","r","m","a","t","o","l","o","g">>>>],
       [name |-> "Cardiology",
        keywords |-> <<<<"c","a","r","d","i","o">>,
                       <<"h","e","a","r","t">>,
                       <<"c","a","r","d","i","a","c">>>>],
       [name |-> "Doctor",
        keywords |-> <<<<"d","o","c","t","o","r">>,
                       <<"p","h","y","s","i","c","i","a","n">>,
                       <<"g","p">>,
                       <<"g","e","n","e","r","a","l">>>>]>>

RECURSIVE DetectDept(_, _)
\* the department loop: the first entry, from the i-th on, one of whose
\* keywords is in cleaned; None when the loop ends without a break
DetectDept(cleaned, i) ==
    IF i > Len(dept_patterns) THEN None
    ELSE IF \E k \in 1..Len(dept_patterns[i].keywords) :
                IsSubstr(dept_patterns[i].keywords[k], cleaned)
         THEN Some(dept_patterns[i].name)
         ELSE DetectDept(cleaned, i + 1)

Max(S) == CHOOSE x \in S : \A y \in S : y <= x

Min(S) == CHOOSE x \in S : \A y \in S : x <= y

RECURSIVE SpaceRun(_, _)
\* the length of the whitespace run that starts at position j
SpaceRun(s, j) ==
    IF j <= Len(s) /\ IsSpace(s[j]) THEN 1 + SpaceRun(s, j + 1) ELSE 0

\* how many digits \d{1,2} can take at position j: 0, 1 or 2
DigitsAt(s, j) ==
    IF j <= Len(s) /\ IsDigit(s[j])
    THEN (IF j + 1 <= Len(s) /\ IsDigit(s[j + 1]) THEN 2 ELSE 1)
    ELSE 0

\* A matcher gives the position after the match it prefers at a start
\* position, 0 when there is none.

\* ([ap])\.?m\.? at position q, case-insensitive
AmPmRest(s, q) ==
    IF q <= Len(s) /\ LowerChar(s[q]) \in {"a", "p"}
    THEN LET MAt(j) == j <= Len(s) /\ LowerChar(s[j]) = "m"
             e == IF q + 1 <= Len(s) /\ s[q + 1] = "." /\ MAt(q + 2)
                  THEN q + 3
                  ELSE IF MAt(q + 1) THEN q + 2 ELSE 0
         IN  IF e = 0 THEN 0
             ELSE IF e <= Len(s) /\ s[e] = "." THEN e + 1 ELSE e
    ELSE 0

\* \s*([ap])\.?m\.? at position j: the longest whitespace run first
AmPmTail(s, j) ==
    LET ok == {q \in j..(j + SpaceRun(s, j)) : AmPmRest(s, q) # 0}
    IN  IF ok = {} THEN 0 ELSE AmPmRest(s, Max(ok))

\* time_patterns[0]: (\d{1,2})\s*([ap])\.?m\.?
PatternA(s, i) ==
    LET ok == {k \in 1..DigitsAt(s, i) : AmPmTail(s, i + k) # 0}
    IN  IF ok = {} THEN 0 ELSE AmPmTail(s, i + Max(ok))

\* time_patterns[1]: (\d{1,2}):(\d{2})\s*([ap])\.?m\.?
PatternB(s, i) ==
    LET ok == {k \in 1..DigitsAt(s, i) :
                  /\ i + k <= Len(s)
                  /\ s[i + k] = ":"
                  /\ DigitsAt(s, i + k + 1) = 2
                  /\ AmPmTail(s, i + k + 3) # 0}
    IN  IF ok = {} THEN 0 ELSE AmPmTail(s, i + Max(ok) + 3)

\* time_patterns[2]: at\s+(\d{1,2})
PatternC(s, i) ==
    IF /\ i + 1 <= Len(s)
       /\ LowerChar(s[i]) = "a"
       /\ LowerChar(s[i + 1]) = "t"
    THEN LET ok == {q \in 1..SpaceRun(s, i + 2) :
                       DigitsAt(s, i + 2 + q) # 0}
         IN  IF ok = {} THEN 0
             ELSE i + 2 + Max(ok) + DigitsAt(s, i + 2 + Max(ok))
    ELSE 0

\* re.search(pattern, s): ends[i] being what the pattern's matcher gives at
\* start position i, the match at the leftmost start position that has one,
\* as group(0) returns it; None when no position has
Search(s, ends) ==
    LET starts == {i \in 1..Len(s) : ends[i] # 0}
    IN  IF starts = {} THEN None
        ELSE Some(SubSeq(s, Min(starts), ends[Min(starts)] - 1))

\* re.search(time_patterns[0], s, re.IGNORECASE)
SearchA(s) == Search(s, [i \in 1..Len(s) |-> PatternA(s, i)])

\* re.search(time_patterns[1], s, re.IGNORECASE)
SearchB(s) == Search(s, [i \in 1..Len(s) |-> PatternB(s, i)])

\* re.search(time_patterns[2], s, re.IGNORECASE)
SearchC(s) == Search(s, [i \in 1..Len(s) |-> PatternC(s, i)])

\* the loop over time_patterns with the first two patterns swapped
TimePhrase_ColonFirst(cleaned) ==
    IF SearchB(cleaned) # None THEN SearchB(cleaned)
    ELSE IF SearchA(cleaned) # None THEN SearchA(cleaned)
    ELSE SearchC(cleaned)

\* the loop over time_patterns: the first pattern that matches anywhere
TimePhrase(cleaned) ==
    IF SearchA(cleaned) # None THEN SearchA(cleaned)
    ELSE IF SearchB(cleaned) # None THEN SearchB(cleaned)
    ELSE SearchC(cleaned)

Tomorrow == <<"t","o","m","o","r","r","o","w">>

Today == <<"t","o","d","a","y">>

NextThis == <<<<"n","e","x","t">>, <<"t","h","i","s">>>>

Weekdays ==
    <<<<"m","o","n","d","a","y">>,
       <<"t","u","e","s","d","a","y">>,
       <<"w","e","d","n","e","s","d","a","y">>,
       <<"t","h","u","r","s","d","a","y">>,
       <<"f","r","i","d","a","y">>,
       <<"s","a","t","u","r","d","a","y">>,
       <<"s","u","n","d","a","y">>>>

PrefixAt(s, i, w) ==
    i + Len(w) - 1 <= Len(s) /\ SubSeq(s, i, i + Len(w) - 1) = w

\* weekday_pattern: \b(next|this)\s+(monday|...|sunday)\b
WeekdayPattern(s, i) ==
    IF WordBoundary(s, i) /\ \E a \in 1..Len(NextThis) : PrefixAt(s, i, NextThis[a])
    THEN LET a  == Min({x \in 1..Len(NextThis) : PrefixAt(s, i, NextThis[x])})
             j  == i + Len(NextThis[a])
             ok == {<<q, d>> \in (1..SpaceRun(s, j)) \X (1..Len(Weekdays)) :
                       /\ PrefixAt(s, j + q, Weekdays[d])
                       /\ WordBoundary(s, j + q + Len(Weekdays[d]))}
         IN  IF ok = {} THEN 0
             ELSE LET m == CHOOSE x \in ok : \A y \in ok : y[1] <= x[1]
                  IN  j + m[1] + Len(Weekdays[m[2]])
    ELSE 0

\* the date extraction: tomorrow, else today, else the weekday pattern
DatePhrase(cleaned) ==
    IF IsSubstr(Tomorrow, cleaned) THEN Some(Tomorrow)
    ELSE IF IsSubstr(Today, cleaned) THEN Some(Today)
    ELSE Search(cleaned,
                [i \in 1..Len(cleaned) |-> WeekdayPattern(cleaned, i)])

EntBase == 50

EntDateBonus == 20

EntTimeBonus == 20

EntDeptBonus == 10

EntCap == 95

MinOf(a, b) == IF a <= b THEN a ELSE b

\* the confidence calculation with no cap
EntityConfidence_Uncapped(e) ==
    EntBase + (IF Truthy(e.date_phrase) THEN EntDateBonus ELSE 0)
            + (IF Truthy(e.time_phrase) THEN EntTimeBonus ELSE 0)
            + (IF TruthyName(e.department) THEN EntDeptBonus ELSE 0)

\* the confidence calculation, in hundredths
EntityConfidence(e) ==
    MinOf(EntCap,
          EntBase + (IF Truthy(e.date_phrase) THEN EntDateBonus ELSE 0)
                  + (IF Truthy(e.time_phrase) THEN EntTimeBonus ELSE 0)
                  + (IF TruthyName(e.department) THEN EntDeptBonus ELSE 0))

\* the entities dict with the cleaned text left in its casing
Entities_NotLowered(s) ==
    LET cleaned == clean_ocr_text(s)
    IN  [date_phrase |-> DatePhrase(cleaned),
         time_phrase |-> TimePhrase(cleaned),
         department  |-> DetectDept(cleaned, 1)]

\* the entities dict
Entities(s) ==
    LET cleaned == Lower(clean_ocr_text(s))
    IN  [date_phrase |-> DatePhrase(cleaned),
         time_phrase |-> TimePhrase(cleaned),
         department  |-> DetectDept(cleaned, 1)]

\* the returned pair (entities, confidence)
extract_entities_from_text(s) ==
    LET e == Entities(s) IN <<e, EntityConfidence(e)>>

---------------------------------------------------------------------------
(* normalize_entities *)

TZ == "Asia/Kolkata"

\* the settings handed to dateparser.parse
settings ==
    [TIMEZONE |-> TZ, RETURN_AS_TIMEZONE_AWARE |-> FALSE,
     PREFER_DATES_FROM |-> "future"]

\* datetimes the parser may return
DateTimes ==
    {[year |-> 2026, month |-> 11, day |-> 7,
      hour |-> 0, minute |-> 0, second |-> 0],
     [year |-> 2026, month |-> 11, day |-> 6,
      hour |-> 21, minute |-> 30, second |-> 15]}

\* What one call of dateparser.parse may do: return a datetime, return None,
\* or raise.
ParserOutcomes ==
    {[kind |-> "value", dt |-> Some(d)] : d \in DateTimes}
        \cup {[kind |-> "none", dt |-> None], [kind |-> "raise", dt |-> None]}

\* pd.date().isoformat()
IsoDate(d) == <<d.year, d.month, d.day>>

\* pt.time().strftime('%H:%M')
HourMinute(d) == <<d.hour, d.minute>>

NormBase == 50

NormBonus == 25

NormCap == 90

\* the date block with no except clause: what the parser raises is raised on
ParseDate_Uncaught(e, od) ==
    IF Truthy(e.date_phrase) /\ od.kind = "value"
    THEN [value |-> Some(IsoDate(The(od.dt))), bonus |-> NormBonus,
          raised |-> FALSE]
    ELSE [value |-> None, bonus |-> 0,
          raised |-> Truthy(e.date_phrase) /\ od.kind = "raise"]

\* The date block: the try around dateparser.parse(date_phrase, ...).  The
\* bare except catches whatever the parser raises, so nothing is raised on.
ParseDate(e, od) ==
    IF Truthy(e.date_phrase) /\ od.kind = "value"
    THEN [value |-> Some(IsoDate(The(od.dt))), bonus |-> NormBonus,
          raised |-> FALSE]
    ELSE [value |-> None, bonus |-> 0, raised |-> FALSE]

\* the time block: the try around dateparser.parse(time_phrase, ...)
ParseTime(e, ot) ==
    IF Truthy(e.time_phrase) /\ ot.kind = "value"
    THEN [value |-> Some(HourMinute(The(ot.dt))), bonus |-> NormBonus,
          raised |-> FALSE]
    ELSE [value |-> None, bonus |-> 0, raised |-> FALSE]

\* What the call does; od and ot are what the parser does when called for
\* the date and for the time.  An exception leaving the date block would
\* skip the time block and the return.
normalize_entities(e, od, ot) ==
    LET d == ParseDate(e, od)
        t == ParseTime(e, ot)
    IN  IF d.raised \/ t.raised
        THEN [raised |-> TRUE, normalized |-> None, conf |-> 0]
        ELSE [raised     |-> FALSE,
              normalized |-> [date |-> d.value, time |-> t.value, tz |-> TZ],
              conf       |-> MinOf(NormCap, NormBase + d.bonus + t.bonus)]

\* the calls normalize_entities makes to dateparser.parse
ParserCalls(e, od, ot) ==
    (IF Truthy(e.date_phrase)
     THEN <<[field |-> "date", phrase |-> The(e.date_phrase),
             settings |-> settings, outcome |-> od]>>
     ELSE <<>>)
    \o
    (IF Truthy(e.time_phrase) /\ ~ParseDate(e, od).raised
     THEN <<[field |-> "time", phrase |-> The(e.time_phrase),
             settings |-> settings, outcome |-> ot]>>
     ELSE <<>>)

\* the parser is called for a phrase only when the phrase is truthy
NotCalled == [kind |-> "not_called", dt |-> None]

OutcomesFor(phrase) == IF Truthy(phrase) THEN ParserOutcomes ELSE {NotCalled}

---------------------------------------------------------------------------
(* needs_clarification *)

\* the missing list with the time left unchecked
Missing_TimeUnchecked(e, n) ==
    (IF ~TruthyName(e.department) THEN <<"department">> ELSE <<>>)
    \o (IF ~Truthy(n.date) THEN <<"date">> ELSE <<>>)

\* the missing list with the date checked before the department
Missing_DateFirst(e, n) ==
    (IF ~Truthy(n.date) THEN <<"date">> ELSE <<>>)
    \o (IF ~TruthyName(e.department) THEN <<"department">> ELSE <<>>)
    \o (IF ~Truthy(n.time) THEN <<"time">> ELSE <<>>)

\* the missing list
Missing(e, n) ==
    (IF ~TruthyName(e.department) THEN <<"department">> ELSE <<>>)
    \o (IF ~Truthy(n.date) THEN <<"date">> ELSE <<>>)
    \o (IF ~Truthy(n.time) THEN <<"time">> ELSE <<>>)

RECURSIVE JoinWith(_, _)
\* sep.join(items), as the sequence of its pieces
JoinWith(sep, items) ==
    IF items = <<>> THEN <<>>
    ELSE IF Len(items) = 1 THEN items
    ELSE <<items[1], sep>> \o JoinWith(sep, Tail(items))

\* f'Ambiguous or missing: {", ".join(missing)}', as the sequence of its pieces
ClarificationMessage(missing) ==
    <<"Ambiguous or missing: ">> \o JoinWith(", ", missing)

needs_clarification(e, n) ==
    IF Missing(e, n) # <<>>
    THEN Some([status  |-> "needs_clarification",
               message |-> ClarificationMessage(Missing(e, n))])
    ELSE None

---------------------------------------------------------------------------
(* google_vision_ocr *)

RECURSIVE Sum(_)
Sum(q) == IF q = <<>> THEN 0 ELSE Head(q) + Sum(Tail(q))

NonZero(x) == x # 0

\* What the Vision client may do: raise, answer with an error message, answer
\* with no full_text_annotation, or answer with one.  confs are the
\* confidences of the blocks of its pages, in hundredths.
OcrOutcome(kind, t, confs) == [kind |-> kind, text |-> t, confs |-> confs]

\* google_vision_ocr returning the annotation's text as it came
google_vision_ocr_Uncollapsed(o) ==
    IF o.kind \in {"raise", "error"} THEN <<<<>>, 0>>
    ELSE <<IF o.kind = "annotation" THEN o.text ELSE <<>>, 0>>

\* The returned pair (text, confidence).  The average is rounded to two
\* decimals; the block confidences drawn are such that it is exact.
google_vision_ocr(o) ==
    IF o.kind \in {"raise", "error"} THEN <<<<>>, 0>>
    ELSE LET t == IF o.kind = "annotation" THEN o.text ELSE <<>>
             confidences == IF o.kind = "annotation"
                            THEN SelectSeq(o.confs, NonZero) ELSE <<>>
             avg_confidence == IF confidences # <<>>
                               THEN Sum(confidences) \div Len(confidences)
                               ELSE 0
         IN  <<NormalizeWhitespace(t), avg_confidence>>

---------------------------------------------------------------------------
(* The entry points *)

RECURSIVE LStrip(_)
LStrip(s) == IF s # <<>> /\ IsSpace(Head(s)) THEN LStrip(Tail(s)) ELSE s

RECURSIVE RStrip(_)
RStrip(s) ==
    IF s # <<>> /\ IsSpace(s[Len(s)]) THEN RStrip(SubSeq(s, 1, Len(s) - 1))
    ELSE s

\* text.strip()
Strip(s) == RStrip(LStrip(s))

TextConfidence == 95

\* the appointment dict
Appointment(e, n) ==
    [department |-> e.department,
     date       |-> n.date,
     time       |-> n.time,
     tz         |-> n.tz]

\* the dict both entry points return when the guard returned None
StagesResponse(raw, e, ec, n, nc) ==
    [status_code |-> 200,
     content |->
        [step1_raw        |-> raw,
         step2_entities   |-> [entities |-> e, entities_confidence |-> ec],
         step3_normalized |-> [normalized |-> n,
                               normalization_confidence |-> nc],
         final            |-> [appointment |-> Appointment(e, n),
                               status |-> "ok"]]]

\* parse_text returning the four stages in the clarification case too
TextResponse_Bundled(t, e, ec, n, nc, g) ==
    IF g # None
    THEN [status_code |-> 200,
          content |->
             [step1_raw        |-> [raw_text |-> Strip(t),
                                    confidence |-> TextConfidence],
              step2_entities   |-> [entities |-> e, entities_confidence |-> ec],
              step3_normalized |-> [normalized |-> n,
                                    normalization_confidence |-> nc],
              final            |-> The(g)]]
    ELSE StagesResponse([raw_text |-> Strip(t), confidence |-> TextConfidence],
                        e, ec, n, nc)

\* what parse_text answers once the three stages have run on t
TextResponse(t, e, ec, n, nc, g) ==
    IF g # None
    THEN [status_code |-> 200, content |-> The(g)]
    ELSE StagesResponse([raw_text |-> Strip(t), confidence |-> TextConfidence],
                        e, ec, n, nc)

\* what parse_image answers once the three stages have run on the OCR text
ImageResponse(t, ocr_conf, e, ec, n, nc, g) ==
    IF g # None
    THEN [status_code |-> 200,
          content |-> [status         |-> The(g).status,
                       message        |-> The(g).message,
                       extracted_text |-> t]]
    ELSE StagesResponse([raw_text |-> t, confidence |-> ocr_conf],
                        e, ec, n, nc)

\* the locals of a handler that returns before the stages run
NoStages ==
    /\ parses' = <<>>
    /\ entities' = None
    /\ ent_conf' = 0
    /\ normalized' = None
    /\ norm_conf' = 0
    /\ guard' = None

\* the functions the three stages call, the last one unless
\* normalize_entities raised
StageCalls(nz) ==
    <<"extract_entities_from_text", "normalize_entities">>
        \o (IF nz.raised THEN <<>> ELSE <<"needs_clarification">>)

\* what the framework answers when a handler raises
ServerError == [status_code |-> 500, content |-> [detail |-> "Error"]]

---------------------------------------------------------------------------
(* Inputs *)

MaxFrags == 3

MaxTimeFrags == 4

MaxCleanFrags == 4

RECURSIVE Concats(_, _)
\* every concatenation of at most n fragments of V
Concats(V, n) ==
    IF n = 0 THEN {<<>>}
    ELSE LET shorter == Concats(V, n - 1)
         IN  shorter \cup {a \o b : a \in shorter, b \in V}

\* fragments of requests
ReqVocab ==
    {<<"d","e","n","t","a","l">>,
     <<"G","P">>,
     <<" ">>,
     <<"5","p","m">>,
     <<"@"," ","5">>,
     <<"t","o","d","a","y">>,
     <<"n","x","t"," ","m","o","n","d","a","y">>}

ReqTexts == Concats(ReqVocab, MaxFrags)

\* fragments around the department keywords
DeptVocab ==
    {<<"d","e","n","t","a","l">>,
     <<"H","E","A","R","T">>,
     <<"s","k","i","n">>,
     <<"g","p">>,
     <<"d","e","r","m">>,
     <<"@">>,
     <<" ">>}

\* fragments around the time patterns
TimeVocab ==
    {<<"5">>,
     <<"3","0">>,
     <<":">>,
     <<" ">>,
     <<"p","m">>,
     <<"A",".","M",".">>,
     <<"a","t">>,
     <<".">>}

\* fragments around the date phrases
DateVocab ==
    {<<"t","o","m","o","r","r","o","w">>,
     <<"T","O","D","A","Y">>,
     <<"n","e","x","t">>,
     <<"t","h","i","s">>,
     <<"n","x","t">>,
     <<" ">>,
     <<"m","o","n","d","a","y">>,
     <<"s","u","n","d","a","y">>,
     <<"s">>}

ExtractTexts ==
    Concats(DeptVocab, MaxFrags) \cup Concats(TimeVocab, MaxTimeFrags)
        \cup Concats(DateVocab, MaxFrags)

\* fragments around what clean_ocr_text rewrites
CleanVocab ==
    {<<" ">>,
     <<"\n">>,
     <<"@">>,
     <<"n","x","t">>,
     <<"N","x","T">>,
     <<"a">>,
     <<"-">>}

CleanTexts == Concats(CleanVocab, MaxCleanFrags)

\* block confidences of an OCR answer
OcrConfs == {<<>>, <<0>>, <<80, 90>>}

OcrOutcomes ==
    {OcrOutcome("raise", <<>>, <<>>),
     OcrOutcome("error", <<>>, <<>>),
     OcrOutcome("no_annotation", <<>>, <<>>)}
        \cup {OcrOutcome("annotation", t, c) : t \in ReqTexts, c \in OcrConfs}

\* entities dicts handed to normalize_entities and needs_clarification
PhraseValues == {None, Some(<<>>), Some(Today), Some(<<"3","0","p","m">>)}

DeptValues == {None, Some(""), Some("Dentistry"), Some("Doctor")}

EntityDicts ==
    [date_phrase : PhraseValues, time_phrase : PhraseValues,
     department : DeptValues]

\* normalized dicts handed to needs_clarification
NormalizedDicts ==
    [date : {None, Some(<<>>)} \cup {Some(IsoDate(d)) : d \in DateTimes},
     time : {None, Some(<<>>)} \cup {Some(HourMinute(d)) : d \in DateTimes},
     tz   : {TZ}]

---------------------------------------------------------------------------
(* The service: one request to one of the two entry points *)

Idle ==
    /\ pc = "idle"
    /\ request = None
    /\ calls = <<>>
    /\ parses = <<>>
    /\ ent_conf = 0
    /\ norm_conf = 0
    /\ guard = None
    /\ response = None

Init ==
    /\ Idle
    /\ endpoint = "none"
    /\ text = <<>>
    /\ entities = None
    /\ normalized = None

\* A client posts a text to /parse_text, or an image to /parse_image.  The
\* body of an image request stands for the upload by what the Vision client
\* does with it.
Receive ==
    /\ pc = "idle"
    /\ pc' = "received"
    /\ request' \in
          {Some([endpoint |-> "parse_text", body |-> t]) : t \in ReqTexts}
              \cup {Some([endpoint |-> "parse_image", body |-> o]) :
                       o \in OcrOutcomes}
    /\ UNCHANGED <<endpoint, text, calls, parses, entities, ent_conf,
                   normalized, norm_conf, guard, response>>

\* POST /parse_text with body {text: t}
parse_text ==
    /\ pc = "received"
    /\ The(request).endpoint = "parse_text"
    /\ endpoint' = "parse_text"
    /\ pc' = "done"
    /\ text' = The(request).body
    /\ IF text' = <<>>
       THEN /\ NoStages
            /\ calls' = <<>>
            /\ response' =
                  Some([status_code |-> 400,
                        content |-> [detail |-> "Text field is required"]])
       ELSE /\ entities' = extract_entities_from_text(text')[1]
            /\ ent_conf' = extract_entities_from_text(text')[2]
            /\ \E od \in OutcomesFor(entities'.date_phrase),
                  ot \in OutcomesFor(entities'.time_phrase) :
                  LET nz == normalize_entities(entities', od, ot)
                  IN  /\ parses' = ParserCalls(entities', od, ot)
                      /\ normalized' = nz.normalized
                      /\ norm_conf' = nz.conf
                      /\ calls' = StageCalls(nz)
                      /\ guard' =
                            IF nz.raised THEN None
                            ELSE needs_clarification(entities', normalized')
                      /\ response' =
                            IF nz.raised THEN Some(ServerError)
                            ELSE Some(TextResponse(text', entities', ent_conf',
                                                   normalized', norm_conf',
                                                   guard'))
    /\ UNCHANGED request

\* POST /parse_image
parse_image ==
    /\ pc = "received"
    /\ The(request).endpoint = "parse_image"
    /\ endpoint' = "parse_image"
    /\ pc' = "done"
    /\ text' = google_vision_ocr(The(request).body)[1]
    /\ IF text' = <<>>
       THEN /\ NoStages
            /\ calls' = <<"google_vision_ocr">>
            /\ response' =
                  Some([status_code |-> 200,
                        content |-> [status  |-> "needs_clarification",
                                     message |-> "No text found in image."]])
       ELSE /\ entities' = extract_entities_from_text(text')[1]
            /\ ent_conf' = extract_entities_from_text(text')[2]
            /\ \E od \in OutcomesFor(entities'.date_phrase),
                  ot \in OutcomesFor(entities'.time_phrase) :
                  LET nz == normalize_entities(entities', od, ot)
                  IN  /\ parses' = ParserCalls(entities', od, ot)
                      /\ normalized' = nz.normalized
                      /\ norm_conf' = nz.conf
                      /\ calls' = <<"google_vision_ocr">> \o StageCalls(nz)
                      /\ guard' =
                            IF nz.raised THEN None
                            ELSE needs_clarification(entities', normalized')
                      /\ response' =
                            IF nz.raised THEN Some(ServerError)
                            ELSE Some(ImageResponse(
                                     text',
                                     google_vision_ocr(The(request).body)[2],
                                     entities', ent_conf', normalized',
                                     norm_conf', guard'))
    /\ UNCHANGED request

Next == Receive \/ parse_text \/ parse_image

Spec == Init /\ [][Next]_vars

---------------------------------------------------------------------------
(* clean_ocr_text applied to a text, and again to its result *)

InitClean ==
    /\ Idle
    /\ endpoint = "clean_ocr_text"
    /\ text \in CleanTexts
    /\ entities = None
    /\ normalized = None

\* response holds the value returned
CleanOnce ==
    /\ pc = "idle"
    /\ pc' = "cleaned"
    /\ response' = Some(clean_ocr_text(text))
    /\ calls' = <<"clean_ocr_text">>
    /\ UNCHANGED <<request, endpoint, text, parses, entities, ent_conf,
                   normalized, norm_conf, guard>>

\* the returned text is cleaned again
CleanAgain ==
    /\ pc = "cleaned"
    /\ pc' = "cleaned_twice"
    /\ text' = The(response)
    /\ response' = Some(clean_ocr_text(The(response)))
    /\ calls' = Append(calls, "clean_ocr_text")
    /\ UNCHANGED <<request, endpoint, parses, entities, ent_conf,
                   normalized, norm_conf, guard>>

NextClean == CleanOnce \/ CleanAgain

SpecClean == InitClean /\ [][NextClean]_vars

---------------------------------------------------------------------------
(* extract_entities_from_text applied to a text *)

InitExtract ==
    /\ Idle
    /\ endpoint = "extract_entities_from_text"
    /\ text \in ExtractTexts
    /\ entities = None
    /\ normalized = None

Extract ==
    /\ pc = "idle"
    /\ pc' = "done"
    /\ entities' = extract_entities_from_text(text)[1]
    /\ ent_conf' = extract_entities_from_text(text)[2]
    /\ calls' = <<"extract_entities_from_text">>
    /\ UNCHANGED <<request, endpoint, text, parses, normalized, norm_conf, guard,
                   response>>

SpecExtract == InitExtract /\ [][Extract]_vars

---------------------------------------------------------------------------
(* normalize_entities applied to an entities dict *)

InitNormalize ==
    /\ Idle
    /\ endpoint = "normalize_entities"
    /\ text = <<>>
    /\ entities \in EntityDicts
    /\ normalized = None

\* response holds whether the call raised
Normalize ==
    /\ pc = "idle"
    /\ pc' = "done"
    /\ \E od \in OutcomesFor(entities.date_phrase),
          ot \in OutcomesFor(entities.time_phrase) :
          LET nz == normalize_entities(entities, od, ot)
          IN  /\ normalized' = nz.normalized
              /\ norm_conf' = nz.conf
              /\ response' = Some([raised |-> nz.raised])
              /\ parses' = ParserCalls(entities, od, ot)
    /\ calls' = <<"normalize_entities">>
    /\ UNCHANGED <<request, endpoint, text, entities, ent_conf, guard>>

SpecNormalize == InitNormalize /\ [][Normalize]_vars

---------------------------------------------------------------------------
(* needs_clarification applied to an entities and a normalized dict *)

InitGuard ==
    /\ Idle
    /\ endpoint = "needs_clarification"
    /\ text = <<>>
    /\ entities \in EntityDicts
    /\ normalized \in NormalizedDicts

\* The function reads its arguments with .get and assigns to neither.
Guard ==
    /\ pc = "idle"
    /\ pc' = "done"
    /\ guard' = needs_clarification(entities, normalized)
    /\ calls' = <<"needs_clarification">>
    /\ UNCHANGED <<request, endpoint, text, parses, entities, ent_conf, normalized,
                   norm_conf, response>>

SpecGuard == InitGuard /\ [][Guard]_vars

---------------------------------------------------------------------------
(* Properties *)

\* a field is absent when it holds no value or an empty one
AbsentText(o) == o = None \/ o = Some(<<>>)

AbsentName(o) == o = None \/ o = Some("")

\* the names of the absent required fields, in the order department, date, time
AbsentFields(e, n) ==
    LET IsAbsent(f) ==
           \/ f = "department" /\ AbsentName(e.department)
           \/ f = "date" /\ AbsentText(n.date)
           \/ f = "time" /\ AbsentText(n.time)
    IN  SelectSeq(<<"department", "date", "time">>, IsAbsent)

\* msg is "Ambiguous or missing: " followed by the names, ", " between them
Enumerates(msg, names) ==
    /\ Len(msg) = (IF names = <<>> THEN 1 ELSE 2 * Len(names))
    /\ msg[1] = "Ambiguous or missing: "
    /\ \A i \in 1..Len(names) :
          /\ msg[2 * i] = names[i]
          /\ i > 1 => msg[2 * i - 1] = ", "

GuardApplied == endpoint = "needs_clarification" /\ pc = "done"

C1_Returned ==
    GuardApplied =>
        /\ (guard # None) <=> (AbsentFields(entities, normalized) # <<>>)
        /\ guard # None =>
              /\ DOMAIN The(guard) = {"status", "message"}
              /\ The(guard).status = "needs_clarification"
              /\ Enumerates(The(guard).message,
                            AbsentFields(entities, normalized))

\* C1: needs_clarification returns a clarification request if and only if
\* at least one of entities.department, normalized.date, normalized.time is
\* absent; the request has status "needs_clarification" and a message that
\* enumerates exactly the absent field names in the order department, date,
\* time, joined by ", "; with all three present it returns None; and the
\* call leaves both arguments as they were.
C1_GuardReportsExactlyAbsent ==
    /\ []C1_Returned
    /\ [][pc' = "done" =>
            entities' = entities /\ normalized' = normalized]_vars

\* all three fields absent: the message lists department, date, time
C1_Witness ==
    /\ GuardApplied
    /\ entities.department = None
    /\ normalized.date = None
    /\ normalized.time = None
    /\ guard # None
    /\ The(guard).message =
          <<"Ambiguous or missing: ", "department", ", ", "date", ", ", "time">>

NormalizeApplied == endpoint = "normalize_entities" /\ pc = "done"

\* the parser was called for the field and returned a datetime
Parsed(f) ==
    \E i \in 1..Len(parses) :
        parses[i].field = f /\ parses[i].outcome.kind = "value"

\* the datetime the parser returned for the field
ParsedValue(f) ==
    LET i == CHOOSE j \in 1..Len(parses) : parses[j].field = f
    IN  The(parses[i].outcome.dt)

\* C5: normalize_entities never raises, whatever each call of the parser
\* does (return a value, return a failure, raise); the normalized date is
\* present exactly when date_phrase was present and its parse succeeded, the
\* normalized time exactly when time_phrase was present and its parse
\* succeeded, each whatever became of the other; and the output carries tz
\* "Asia/Kolkata" in every case.
C5_NormalizeSwallowsFailures ==
    NormalizeApplied =>
        /\ response = Some([raised |-> FALSE])
        /\ (normalized.date # None) <=>
              (~AbsentText(entities.date_phrase) /\ Parsed("date"))
        /\ (normalized.time # None) <=>
              (~AbsentText(entities.time_phrase) /\ Parsed("time"))
        /\ normalized.date # None =>
              normalized.date =
                  Some(<<ParsedValue("date").year, ParsedValue("date").month,
                         ParsedValue("date").day>>)
        /\ normalized.time # None =>
              normalized.time =
                  Some(<<ParsedValue("time").hour, ParsedValue("time").minute>>)
        /\ normalized.tz = "Asia/Kolkata"

\* the parser raised on the date phrase and the time is resolved all the same
C5_Witness ==
    /\ NormalizeApplied
    /\ \E i \in 1..Len(parses) :
          parses[i].field = "date" /\ parses[i].outcome.kind = "raise"
    /\ normalized.date = None
    /\ normalized.time = Some(<<21, 30>>)
    /\ normalized.tz = "Asia/Kolkata"

\* a whole word "nxt", in any casing, at position i of s
WholeWordNxtAt(s, i) ==
    /\ i + 2 <= Len(s)
    /\ <<LowerChar(s[i]), LowerChar(s[i + 1]), LowerChar(s[i + 2])>>
          = <<"n", "x", "t">>
    /\ i = 1 \/ ~IsWord(s[i - 1])
    /\ i + 3 > Len(s) \/ ~IsWord(s[i + 3])

\* no "@", no whole word "nxt", no whitespace but single spaces inside
IsNormalized(s) ==
    /\ \A i \in 1..Len(s) : s[i] # "@"
    /\ \A i \in 1..Len(s) : ~WholeWordNxtAt(s, i)
    /\ \A i \in 1..Len(s) : IsSpace(s[i]) =>
          /\ s[i] = " "
          /\ i \notin {1, Len(s)}
          /\ ~IsSpace(s[i + 1])

\* C10: clean_ocr_text is idempotent: what it returns has no "@", no whole
\* word "nxt" in any casing, no leading or trailing space and no whitespace
\* run but a single space; cleaning that again returns it unchanged; text
\* that was already normalized is returned as it is, casing kept; and the
\* empty text gives the empty text.
C10_CleanIdempotent ==
    /\ pc \in {"cleaned", "cleaned_twice"} =>
          /\ IsNormalized(The(response))
          /\ IsNormalized(text) => The(response) = text
          /\ text = <<>> => The(response) = <<>>
    /\ pc = "cleaned_twice" => The(response) = text

\* a text with "@" and "nxt" was cleaned to "next at", and cleaned again
C10_Witness ==
    /\ pc = "cleaned_twice"
    /\ Len(calls) = 2
    /\ text = <<"n","e","x","t"," ","a","t">>
    /\ response = Some(text)

DeptOrder == <<"Dentistry", "Dermatology", "Cardiology", "Doctor">>

\* some keyword of the department named DeptOrder[i] occurs in lc
Mentions(i, lc) ==
    LET d == CHOOSE j \in 1..Len(dept_patterns) :
                 dept_patterns[j].name = DeptOrder[i]
    IN  \E k \in 1..Len(dept_patterns[d].keywords) :
            IsSubstr(dept_patterns[d].keywords[k], lc)

ExtractApplied == endpoint = "extract_entities_from_text" /\ pc = "done"

\* C8: the department returned is the first one, in the order Dentistry,
\* Dermatology, Cardiology, Doctor, that has a keyword occurring in the
\* lower-cased cleaned text, wherever the keywords stand and whatever the
\* input's casing; no department is returned exactly when no keyword of any
\* department occurs; a text with both "dental" and "heart" is Dentistry.
C8_FirstDepartmentWins ==
    ExtractApplied =>
        LET lc == Lower(clean_ocr_text(text))
        IN  /\ \A i \in 1..Len(DeptOrder) :
                  (entities.department = Some(DeptOrder[i])) <=>
                      (Mentions(i, lc) /\ \A j \in 1..(i - 1) : ~Mentions(j, lc))
            /\ (entities.department = None) <=>
                  (\A i \in 1..Len(DeptOrder) : ~Mentions(i, lc))
            /\ (/\ IsSubstr(<<"d","e","n","t","a","l">>, Lower(text))
                /\ IsSubstr(<<"h","e","a","r","t">>, Lower(text)))
                  => entities.department = Some("Dentistry")

\* "HEART" written before "dental": Dentistry all the same
C8_Witness ==
    /\ ExtractApplied
    /\ text = <<"H","E","A","R","T","d","e","n","t","a","l">>
    /\ entities.department = Some("Dentistry")

AllDigits(w) == \A i \in 1..Len(w) : IsDigit(w[i])

AllSpaces(w) == \A i \in 1..Len(w) : IsSpace(w[i])

From(w, i) == SubSeq(w, i, Len(w))

\* w is in the language of \s*[ap]\.?m\.?
InAmPm(w) ==
    \E nw \in 0..Len(w) :
        /\ AllSpaces(SubSeq(w, 1, nw))
        /\ \E x \in {"a", "p"} :
              Lower(From(w, nw + 1)) \in
                  {<<x, "m">>, <<x, ".", "m">>, <<x, "m", ".">>,
                   <<x, ".", "m", ".">>}

\* w is in the language of pattern (a), \d{1,2}\s*[ap]\.?m\.?
InA(w) ==
    \E nd \in 1..2 :
        /\ nd <= Len(w)
        /\ AllDigits(SubSeq(w, 1, nd))
        /\ InAmPm(From(w, nd + 1))

\* w is in the language of pattern (b), \d{1,2}:\d{2}\s*[ap]\.?m\.?
InB(w) ==
    \E nd \in 1..2 :
        /\ nd + 3 <= Len(w)
        /\ AllDigits(SubSeq(w, 1, nd))
        /\ w[nd + 1] = ":"
        /\ AllDigits(SubSeq(w, nd + 2, nd + 3))
        /\ InAmPm(From(w, nd + 4))

\* w is in the language of pattern (c), at\s+\d{1,2}
InC(w) ==
    \E nw \in 1..Len(w), nd \in 1..2 :
        /\ Len(w) = 2 + nw + nd
        /\ Lower(SubSeq(w, 1, 2)) = <<"a", "t">>
        /\ AllSpaces(SubSeq(w, 3, 2 + nw))
        /\ AllDigits(From(w, 3 + nw))

\* the spans <<i, j>> of s whose text is in the language L
Spans(s, L(_)) ==
    {ij \in (1..Len(s)) \X (1..Len(s)) :
        ij[1] <= ij[2] /\ L(SubSeq(s, ij[1], ij[2]))}

\* the longest of the spans of L that start leftmost in s
Leftmost(s, L(_)) ==
    LET sp == Spans(s, L)
        ij == CHOOSE x \in sp : \A y \in sp :
                  x[1] < y[1] \/ (x[1] = y[1] /\ x[2] >= y[2])
    IN  SubSeq(s, ij[1], ij[2])

\* C9: the time phrase is the whole span of the leftmost match of the first
\* of the patterns (a), (b), (c) that matches anywhere in the cleaned text.
\* Every text that matches (b) matches (a) too, so (b) never decides: the
\* phrase is never a span of (b), and "5:30pm" gives "30pm".
C9_FirstTimePatternWins ==
    ExtractApplied =>
        LET c == Lower(clean_ocr_text(text))
        IN  /\ Spans(c, InB) # {} => Spans(c, InA) # {}
            /\ entities.time_phrase =
                  (IF Spans(c, InA) # {} THEN Some(Leftmost(c, InA))
                   ELSE IF Spans(c, InB) # {} THEN Some(Leftmost(c, InB))
                   ELSE IF Spans(c, InC) # {} THEN Some(Leftmost(c, InC))
                   ELSE None)
            /\ entities.time_phrase # None => ~InB(The(entities.time_phrase))
            /\ text = <<"5",":","3","0","p","m">> => entities.time_phrase = Some(<<"3","0","p","m">>)

\* "5:30pm" was given and "30pm" came back
C9_Witness ==
    /\ ExtractApplied
    /\ text = <<"5",":","3","0","p","m">>
    /\ entities.time_phrase = Some(<<"3","0","p","m">>)

\* a request has been answered
Answered == pc = "done" /\ endpoint \in {"parse_text", "parse_image"}

\* the handler ran the three stages to the end
StagesRan == Answered /\ "needs_clarification" \in {calls[i] : i \in 1..Len(calls)}

Content == The(response).content

\* the response is the four-stage dict whose final status is "ok"
IsOk ==
    /\ The(response).status_code = 200
    /\ "final" \in DOMAIN Content
    /\ Content.final.status = "ok"

\* the response is a clarification and holds no appointment
IsClarification ==
    /\ The(response).status_code = 200
    /\ "status" \in DOMAIN Content
    /\ Content.status = "needs_clarification"
    /\ DOMAIN Content \subseteq {"status", "message", "extracted_text"}

AnyAbsent ==
    \/ AbsentName(entities.department)
    \/ AbsentText(normalized.date)
    \/ AbsentText(normalized.time)

\* C2: from either entry point and whatever the OCR and the parser do, a
\* response with final status "ok" is produced only when department, date
\* and time are all present, and then the appointment holds the extracted
\* department, the normalized date and time and the timezone "Asia/Kolkata";
\* every run of the pipeline in which one of the three is absent ends in
\* status "needs_clarification" and holds no appointment.
C2_OkOnlyWhenComplete ==
    Answered =>
        /\ IsOk =>
              /\ StagesRan
              /\ ~AnyAbsent
              /\ Content.final.appointment =
                    [department |-> entities.department,
                     date       |-> normalized.date,
                     time       |-> normalized.time,
                     tz         |-> "Asia/Kolkata"]
        /\ (StagesRan /\ AnyAbsent) => IsClarification

\* an image request answered "ok"
C2_Witness ==
    /\ Answered
    /\ endpoint = "parse_image"
    /\ IsOk
    /\ Content.final.appointment.department = Some("Dentistry")
    /\ Content.final.appointment.time = Some(<<21, 30>>)

StageKeys == {"step1_raw", "step2_entities", "step3_normalized", "final"}

\* the response holds what the first three stages produced
BundlesStages ==
    /\ StageKeys \subseteq DOMAIN Content
    /\ Content.step1_raw = [raw_text |-> Strip(text), confidence |-> 95]
    /\ Content.step2_entities =
          [entities |-> entities, entities_confidence |-> ent_conf]
    /\ Content.step3_normalized =
          [normalized |-> normalized, normalization_confidence |-> norm_conf]

TextAccepted == Answered /\ endpoint = "parse_text" /\ text # <<>>

\* C3 as stated: for every non-empty text the text entry point accepts, the
\* response bundles raw text with confidence, entities with their
\* confidence, normalized fields with their confidence and a final object
\* that is {appointment, status "ok"} or the needs_clarification outcome.
C3_Original ==
    TextAccepted =>
        /\ The(response).status_code = 200
        /\ BundlesStages
        /\ \/ DOMAIN Content.final = {"appointment", "status"}
              /\ Content.final.status = "ok"
           \/ Content.final = The(guard)

\* C3 amended: the response bundles the four stages exactly when no required
\* field is missing, its final object being {appointment, status "ok"};
\* when one is missing the response is the clarification {status, message}
\* alone, with none of the three earlier stage outputs.
C3_StagesOnlyWhenOk ==
    TextAccepted =>
        /\ The(response).status_code = 200
        /\ ~AnyAbsent =>
              /\ DOMAIN Content = StageKeys
              /\ BundlesStages
              /\ DOMAIN Content.final = {"appointment", "status"}
              /\ Content.final.status = "ok"
        /\ AnyAbsent =>
              /\ DOMAIN Content = {"status", "message"}
              /\ Content = The(guard)
              /\ Content.status = "needs_clarification"

\* a text with a department and a time and no date is answered by the bare
\* clarification
C3_Witness ==
    /\ TextAccepted
    /\ text = <<"d","e","n","t","a","l","5","p","m">>
    /\ Content =
          [status |-> "needs_clarification",
           message |-> <<"Ambiguous or missing: ", "date">>]

\* what the Vision client did leaves no text: it raised, reported an error,
\* gave no annotation, or gave one with nothing but whitespace
OcrFoundNothing ==
    \/ The(request).body.kind \in {"raise", "error", "no_annotation"}
    \/ AllSpaces(The(request).body.text)

PipelineFunctions ==
    {"extract_entities_from_text", "normalize_entities", "needs_clarification"}

\* C4: no stage of the pipeline is ever invoked on empty input: the text
\* entry point answers empty text with the client error 400 before any
\* stage runs, and the image entry point, whenever the OCR step yields empty
\* text, answers 200 with {status "needs_clarification", message "No text
\* found in image."} without running extraction, normalization or the guard.
C4_NoStageOnEmptyInput ==
    Answered =>
        /\ (\E i \in 1..Len(calls) : calls[i] \in PipelineFunctions)
              => text # <<>>
        /\ (endpoint = "parse_text" /\ The(request).body = <<>>) =>
              /\ The(response).status_code = 400
              /\ calls = <<>>
        /\ (endpoint = "parse_image" /\ OcrFoundNothing) =>
              /\ response =
                    Some([status_code |-> 200,
                          content |-> [status  |-> "needs_clarification",
                                       message |-> "No text found in image."]])
              /\ calls = <<"google_vision_ocr">>

\* the Vision client answered with whitespace alone
C4_Witness ==
    /\ Answered
    /\ endpoint = "parse_image"
    /\ The(request).body.kind = "annotation"
    /\ The(request).body.text = <<" ", " ">>
    /\ Content.message = "No text found in image."
    /\ calls = <<"google_vision_ocr">>

\* the text holds a department keyword
HasDeptKeyword(t) == \E i \in 1..Len(DeptOrder) : Mentions(i, Lower(t))

\* the text holds a span one of the three time patterns matches
HasTimePattern(t) ==
    \/ Spans(Lower(t), InA) # {}
    \/ Spans(Lower(t), InB) # {}
    \/ Spans(Lower(t), InC) # {}

\* The text holds a department keyword and a time pattern, and the
\* extractor finds no date phrase in it.
DeptAndTimeNoDate ==
    /\ StagesRan
    /\ HasDeptKeyword(text)
    /\ HasTimePattern(text)
    /\ entities.date_phrase = None

\* C6 as stated: for every text with a department keyword and a time pattern
\* and no date phrase, extraction, normalization and the guard yield a
\* clarification whose missing list is exactly ["date"].
C6_Original ==
    DeptAndTimeNoDate =>
        /\ guard # None
        /\ The(guard).message = <<"Ambiguous or missing: ", "date">>

\* C6 amended: for every such text the guard yields a clarification that
\* never reports the department and always reports the date; it reports the
\* time as well exactly when the parser does not resolve the time phrase, so
\* the missing list is ["date"] when it does and ["date", "time"] when not.
C6_DateMissingTimeIfUnparsed ==
    DeptAndTimeNoDate =>
        /\ entities.department # None
        /\ entities.time_phrase # None
        /\ guard # None
        /\ The(guard).status = "needs_clarification"
        /\ The(guard).message =
              (IF Parsed("time")
               THEN <<"Ambiguous or missing: ", "date">>
               ELSE <<"Ambiguous or missing: ", "date", ", ", "time">>)

\* "GP5pm" with the parser failing on "5pm": date and time are reported
C6_Witness ==
    /\ DeptAndTimeNoDate
    /\ text = <<"G","P","5","p","m">>
    /\ ~Parsed("time")
    /\ The(guard).message = <<"Ambiguous or missing: ", "date", ", ", "time">>

Flag(b) == IF b THEN 1 ELSE 0

\* C7: in hundredths, the extractor's confidence is in [50, 95] and is
\* min(95, 50 + 20 [date phrase found] + 20 [time phrase found]
\* + 10 [department found]); the resolver's is in [50, 90] and is
\* min(90, 50 + 25 [date parsed] + 25 [time parsed]); each cap is reached
\* exactly when all three entities are found, respectively both parses
\* succeed.
C7_ConfidenceBounds ==
    StagesRan =>
        LET e == 50 + 20 * Flag(entities.date_phrase # None)
                    + 20 * Flag(entities.time_phrase # None)
                    + 10 * Flag(entities.department # None)
            n == 50 + 25 * Flag(normalized.date # None)
                    + 25 * Flag(normalized.time # None)
        IN  /\ ent_conf \in 50..95
            /\ ent_conf = (IF e > 95 THEN 95 ELSE e)
            /\ (ent_conf = 95) <=>
                  (/\ entities.date_phrase # None
                   /\ entities.time_phrase # None
                   /\ entities.department # None)
            /\ norm_conf \in 50..90
            /\ norm_conf = (IF n > 90 THEN 90 ELSE n)
            /\ (norm_conf = 90) <=>
                  (normalized.date # None /\ normalized.time # None)

\* both caps reached in one run
C7_Witness ==
    /\ StagesRan
    /\ ent_conf = 95
    /\ norm_conf = 90

===========================================================================
